---- MODULE Spec2Model ----
(***************************************************************************)
(* The workflow coordinator of letta/services/workflow/coordinator.py:     *)
(* WorkflowCoordinator with its agent registry, task map, ready queue,     *)
(* dependency index and in-flight set, the run_workflow loop and the       *)
(* callers that register agents and add tasks while the loop is suspended. *)
(*                                                                         *)
(* Task instances are Python objects: the queue holds references to them   *)
(* and the task map binds ids to them, so the model keeps a heap           *)
(* (task_objs, a Task's identity is its index) and lets tasks and          *)
(* task_queue hold indices.  asyncio runs one coroutine at a time; a       *)
(* coroutine is interleaved with others only where it really suspends.     *)
(***************************************************************************)
EXTENDS Integers, Sequences, FiniteSets, TLC

\* ------------------------------------------------------------------ bounds
\* Number of Task objects created by add_task over a behaviour.
MaxTasks == 3

\* ------------------------------------------------------------ input domains
TaskIds == {"A", "B", "G"}
Roles == {"r"}
\* A role a caller may name in add_task that no agent is ever registered for,
\* and the task id such a call is made with (the call is rejected before
\* the id or the dependency list is looked at).
Ghost == "ghost"
GhostTaskId == "A"
\* WorkflowMemory instances a caller may register; .role is the role it serves.
Memories == [role : Roles, name : {"m1", "m2"}]
\* The dependency edges callers may name: A on G, B on A and G, G on B and
\* on itself (chains, a two-predecessor join, cycles and a self-dependency).
DepUniverse ==
    [id \in TaskIds |->
        CASE id = "A" -> {"G"} [] id = "B" -> {"A", "G"} [] OTHER -> {"B", "G"}]
\* Dependency lists a caller may pass for task_id (None and [] are both the
\* empty set; order and repetitions in the list change nothing).
DepChoices(task_id) == SUBSET DepUniverse[task_id]
\* Messages of the exceptions an agent call may raise.
Messages == {"Test error"}

\* ------------------------------------------------------------------ values
PENDING == "pending"
IN_PROGRESS == "in_progress"
COMPLETED == "completed"
FAILED == "failed"
BLOCKED == "blocked"
TaskStatus == {PENDING, IN_PROGRESS, COMPLETED, FAILED, BLOCKED}

\* Python's None for the string-valued fields; an unset timestamp is <<>>.
None == "None"
\* The value a successful execute_task returns.
Success == "success"

VARIABLES
    agents,          \* self.agents: role -> registered memory
    tasks,           \* self.tasks: task id -> Task object (heap index)
    task_objs,       \* the Task objects created so far, in creation order
    task_queue,      \* self.task_queue: FIFO of Task objects (heap indices)
    dependencies,    \* self.dependencies: task id -> set of task ids
    running_tasks,   \* self.running_tasks: set of task ids
    pc,              \* where the run_workflow coroutine stands
    cur,             \* the Task object process_task is working on (0: none)
    now,             \* the clock read by datetime.now()
    executed_tasks,  \* the agent's log of execute_task calls (Task objects)
    raised,          \* the exception raised by the call of the last step, or None
    workflow_status  \* <<the dict get_workflow_status has just returned>>, else <<>>

vars == <<agents, tasks, task_objs, task_queue, dependencies, running_tasks,
          pc, cur, now, executed_tasks, raised, workflow_status>>

\* ----------------------------------------------------------------- helpers
\* d[k] = v on a Python dict.
Put(d, k, v) == [x \in DOMAIN d \cup {k} |-> IF x = k THEN v ELSE d[x]]

\* The empty dict.
EmptyDict == [x \in {} |-> 0]

\* Task(id=..., role=..., dependencies=...): the dataclass defaults.
Task(task_id, role, deps) ==
    [id |-> task_id, role |-> role, dependencies |-> deps, status |-> PENDING,
     result |-> None, error |-> None, started_at |-> <<>>, completed_at |-> <<>>]

\* all(d in self.tasks for d in dependencies)
DepsSubmitted(deps, tks) == \A d \in deps : d \in DOMAIN tks

\* InitialStatus with the test of the dependency list inverted: a task
\* without dependencies is taken for one that has to wait.
InitialStatus_EmptyBlocked(deps, tks) ==
    IF deps = {} \/ ~DepsSubmitted(deps, tks) THEN BLOCKED ELSE PENDING

\* The status add_task leaves the new task in, given the task map that
\* already holds the new task.
InitialStatus(deps, tks) ==
    IF deps # {} /\ ~DepsSubmitted(deps, tks) THEN BLOCKED ELSE PENDING

\* DepsCompleted with the status test left out (a dependency only has to be
\* in self.tasks).
DepsCompleted_PresenceOnly(t, tks, objs) ==
    \A d \in objs[t].dependencies : d \in DOMAIN tks

\* DepsCompleted that takes a FAILED dependency for a finished one.
DepsCompleted_TerminalCounts(t, tks, objs) ==
    \A d \in objs[t].dependencies :
        d \in DOMAIN tks /\ objs[tks[d]].status \in {COMPLETED, FAILED}

\* DepsCompleted that is satisfied by one COMPLETED dependency (any for all).
DepsCompleted_AnyCompleted(t, tks, objs) ==
    \/ objs[t].dependencies = {}
    \/ \E d \in objs[t].dependencies :
          d \in DOMAIN tks /\ objs[tks[d]].status = COMPLETED

\* The dependency check of process_task: every dependency is in self.tasks
\* and COMPLETED.
DepsCompleted(t, tks, objs) ==
    \A d \in objs[t].dependencies :
        d \in DOMAIN tks /\ objs[tks[d]].status = COMPLETED

\* ExitCondition that counts only PENDING tasks as outstanding.
ExitCondition_IgnoresBlocked(q, running, tks, objs) ==
    /\ q = <<>>
    /\ running = {}
    /\ ~\E id \in DOMAIN tks : objs[tks[id]].status = PENDING

\* The exit test at the head of the run_workflow loop.
ExitCondition(q, running, tks, objs) ==
    /\ q = <<>>
    /\ running = {}
    /\ ~\E id \in DOMAIN tks : objs[tks[id]].status \in {PENDING, BLOCKED}

\* StartTask that stamps started_at but leaves the status as it was.
StartTask_KeepsStatus(objs, t, time) ==
    [objs EXCEPT ![t].started_at = <<time>>]

\* self.running_tasks.add(task.id); IN_PROGRESS; started_at = now().
StartTask(objs, t, time) ==
    [objs EXCEPT ![t].status = IN_PROGRESS, ![t].started_at = <<time>>]

\* CompleteTask that stores the result and the time but not the status.
CompleteTask_ResultOnly(objs, t, res, time) ==
    [objs EXCEPT ![t].result = res, ![t].completed_at = <<time>>]

\* The success branch of process_task up to the unblocking.
CompleteTask(objs, t, res, time) ==
    [objs EXCEPT ![t].result = res, ![t].status = COMPLETED,
                 ![t].completed_at = <<time>>]

\* FailTask that forgets to record the error.
FailTask_NoError(objs, t, msg) == [objs EXCEPT ![t].status = FAILED]

\* The except branch of process_task.
FailTask(objs, t, msg) ==
    [objs EXCEPT ![t].status = FAILED, ![t].error = msg]

\* str(KeyError(key)): the repr of the key.
KeyErrorStr(key) == "'" \o key \o "'"

\* The keys of self.dependencies in dict (first insertion) order, read off
\* the first n Task objects: a key is inserted by the first add_task that
\* passes a non-empty dependency list for that id and keeps its place.
RECURSIVE KeyOrder(_, _)
KeyOrder(objs, n) ==
    IF n = 0 THEN <<>>
    ELSE LET prev == KeyOrder(objs, n - 1)
             id == objs[n].id
         IN  IF objs[n].dependencies # {}
                /\ ~\E k \in 1..Len(prev) : prev[k] = id
             THEN Append(prev, id) ELSE prev

\* Unblocked with the BLOCKED test left out (every task whose remaining set
\* empties is enqueued).
Unblocked_AnyStatus(completed_task_id, deps, tks, objs) ==
    {id \in DOMAIN deps :
        /\ completed_task_id \in deps[id]
        /\ deps[id] \ {completed_task_id} = {}}

\* Unblocked without the test of the remaining set: every BLOCKED task that
\* listed the completed task is released.
Unblocked_IgnoresRemaining(completed_task_id, deps, tks, objs) ==
    {id \in DOMAIN deps :
        /\ completed_task_id \in deps[id]
        /\ objs[tks[id]].status = BLOCKED}

\* Unblocked with the test of the remaining set inverted (`if deps` for
\* `if not deps`): a task is released while dependencies remain.
Unblocked_WhileRemaining(completed_task_id, deps, tks, objs) ==
    {id \in DOMAIN deps :
        /\ completed_task_id \in deps[id]
        /\ deps[id] \ {completed_task_id} # {}
        /\ objs[tks[id]].status = BLOCKED}

\* unblock_dependent_tasks: the ids whose task is flipped to PENDING and
\* enqueued when completed_task_id completes.
Unblocked(completed_task_id, deps, tks, objs) ==
    {id \in DOMAIN deps :
        /\ completed_task_id \in deps[id]
        /\ deps[id] \ {completed_task_id} = {}
        /\ objs[tks[id]].status = BLOCKED}

\* unblock_dependent_tasks: the dependency index after the removals.
RemoveCompleted(completed_task_id, deps) ==
    [id \in DOMAIN deps |-> deps[id] \ {completed_task_id}]

\* FlipUnblocked that forgets the flip: the released task stays BLOCKED.
FlipUnblocked_KeepsBlocked(ids, tks, objs) == objs

\* unblock_dependent_tasks: the Task objects after the status flips.
FlipUnblocked(ids, tks, objs) ==
    [i \in 1..Len(objs) |->
        IF \E id \in ids : tks[id] = i
        THEN [objs[i] EXCEPT !.status = PENDING] ELSE objs[i]]

\* unblock_dependent_tasks: the Task objects put on the queue, in the order
\* the loop over self.dependencies.items() meets them.
UnblockedQueue(ids, tks, objs) ==
    LET order == KeyOrder(objs, Len(objs))
        Hit(id) == id \in ids
        sel == SelectSeq(order, Hit)
    IN  [k \in 1..Len(sel) |-> tks[sel[k]]]

\* datetime.isoformat(): the text of a clock reading.
IsoFormat(time) == "T" \o ToString(time)

\* The entry get_workflow_status builds for one task (description and the
\* class-wide created_at default are not part of the model's Task).
TaskEntry(task) ==
    [status |-> task.status,
     role |-> task.role,
     started_at |-> IF task.started_at # <<>>
                    THEN IsoFormat(task.started_at[1]) ELSE None,
     completed_at |-> IF task.completed_at # <<>>
                      THEN IsoFormat(task.completed_at[1]) ELSE None,
     error |-> task.error]

\* WorkflowStatus that reports only the tasks that have not ended.
WorkflowStatus_Unfinished(tks, objs, ags, running) ==
    [tasks |-> [id \in {i \in DOMAIN tks :
                           objs[tks[i]].status \notin {COMPLETED, FAILED}}
                  |-> TaskEntry(objs[tks[id]])],
     agents |-> DOMAIN ags,
     running_tasks |-> running]

\* The dict get_workflow_status returns: an entry per item of self.tasks,
\* the keys of self.agents and the members of self.running_tasks (both as
\* lists without repetitions, kept as sets).
WorkflowStatus(tks, objs, ags, running) ==
    [tasks |-> [id \in DOMAIN tks |-> TaskEntry(objs[tks[id]])],
     agents |-> DOMAIN ags,
     running_tasks |-> running]

\* ------------------------------------------------------------------- Init
Init ==
    /\ agents = EmptyDict
    /\ tasks = EmptyDict
    /\ task_objs = <<>>
    /\ task_queue = <<>>
    /\ dependencies = EmptyDict
    /\ running_tasks = {}
    /\ pc = "idle"
    /\ cur = 0
    /\ now = 1
    /\ executed_tasks = <<>>
    /\ raised = None
    /\ workflow_status = <<>>

\* A caller runs only while run_workflow is not running or is suspended in
\* an await; the head of the loop is no suspension point.
CallerMayRun == pc # "loop"

\* ---------------------------------------------------------------- actions
\* register_agent(memory)
register_agent(memory) ==
    /\ CallerMayRun
    /\ agents' = Put(agents, memory.role, memory)
    /\ raised' = None
    /\ workflow_status' = <<>>
    /\ UNCHANGED <<tasks, task_objs, task_queue, dependencies, running_tasks,
                   pc, cur, now, executed_tasks>>

\* add_task without the test of the role: the task is created for any role.
add_task_NoRoleCheck(role, task_id, deps) ==
    /\ CallerMayRun
    /\ workflow_status' = <<>>
    /\ LET n == Len(task_objs) + 1
           tks == Put(tasks, task_id, n)
           st == InitialStatus(deps, tks)
       IN  /\ task_objs' = Append(task_objs,
                              [Task(task_id, role, deps) EXCEPT !.status = st])
           /\ tasks' = tks
           /\ dependencies' = IF deps # {}
                              THEN Put(dependencies, task_id, deps)
                              ELSE dependencies
           /\ task_queue' = IF st = BLOCKED THEN task_queue
                            ELSE Append(task_queue, n)
           /\ raised' = None
           /\ UNCHANGED <<agents, running_tasks, pc, cur, now, executed_tasks>>

\* add_task that stores the new task before it tests the role: a call with
\* an unregistered role raises ValueError but leaves the task in the map.
add_task_LateRoleCheck(role, task_id, deps) ==
    /\ CallerMayRun
    /\ workflow_status' = <<>>
    /\ LET n == Len(task_objs) + 1
           tks == Put(tasks, task_id, n)
           st == InitialStatus(deps, tks)
       IN  /\ task_objs' = Append(task_objs,
                              [Task(task_id, role, deps) EXCEPT !.status = st])
           /\ tasks' = tks
           /\ IF role \notin DOMAIN agents
              THEN /\ raised' = "ValueError"
                   /\ UNCHANGED <<dependencies, task_queue>>
              ELSE /\ dependencies' = IF deps # {}
                                      THEN Put(dependencies, task_id, deps)
                                      ELSE dependencies
                   /\ task_queue' = IF st = BLOCKED THEN task_queue
                                    ELSE Append(task_queue, n)
                   /\ raised' = None
           /\ UNCHANGED <<agents, running_tasks, pc, cur, now, executed_tasks>>

\* add_task that keeps the index the other way round: the id of the new
\* task is recorded under each of its dependencies.
add_task_ReverseIndex(role, task_id, deps) ==
    /\ CallerMayRun
    /\ workflow_status' = <<>>
    /\ IF role \notin DOMAIN agents
       THEN /\ raised' = "ValueError"
            /\ UNCHANGED <<agents, tasks, task_objs, task_queue, dependencies,
                           running_tasks, pc, cur, now, executed_tasks>>
       ELSE LET n == Len(task_objs) + 1
                tks == Put(tasks, task_id, n)
                st == InitialStatus(deps, tks)
            IN  /\ task_objs' = Append(task_objs,
                                   [Task(task_id, role, deps) EXCEPT !.status = st])
                /\ tasks' = tks
                /\ dependencies' =
                       [d \in DOMAIN dependencies \cup deps |->
                           (IF d \in DOMAIN dependencies
                            THEN dependencies[d] ELSE {})
                           \cup (IF d \in deps THEN {task_id} ELSE {})]
                /\ task_queue' = IF st = BLOCKED THEN task_queue
                                 ELSE Append(task_queue, n)
                /\ raised' = None
                /\ UNCHANGED <<agents, running_tasks, pc, cur, now,
                               executed_tasks>>

\* add_task(role, description, task_id, dependencies); an unregistered role
\* raises ValueError before anything is changed.
add_task(role, task_id, deps) ==
    /\ CallerMayRun
    /\ workflow_status' = <<>>
    /\ IF role \notin DOMAIN agents
       THEN /\ raised' = "ValueError"
            /\ UNCHANGED <<agents, tasks, task_objs, task_queue, dependencies,
                           running_tasks, pc, cur, now, executed_tasks>>
       ELSE LET n == Len(task_objs) + 1
                tks == Put(tasks, task_id, n)
                st == InitialStatus(deps, tks)
            IN  /\ task_objs' = Append(task_objs,
                                   [Task(task_id, role, deps) EXCEPT !.status = st])
                /\ tasks' = tks
                /\ dependencies' = IF deps # {}
                                   THEN Put(dependencies, task_id, deps)
                                   ELSE dependencies
                /\ task_queue' = IF st = BLOCKED THEN task_queue
                                 ELSE Append(task_queue, n)
                /\ raised' = None
                /\ UNCHANGED <<agents, running_tasks, pc, cur, now,
                               executed_tasks>>

\* get_workflow_status(): the caller is handed the report of this moment.
get_workflow_status ==
    /\ CallerMayRun
    /\ workflow_status' = <<WorkflowStatus(tasks, task_objs, agents,
                                           running_tasks)>>
    /\ raised' = None
    /\ UNCHANGED <<agents, tasks, task_objs, task_queue, dependencies,
                   running_tasks, pc, cur, now, executed_tasks>>

\* A caller awaits run_workflow() (again, once an earlier call has returned).
run_workflow ==
    /\ pc \in {"idle", "done"}
    /\ pc' = "loop"
    /\ raised' = None
    /\ workflow_status' = <<>>
    /\ UNCHANGED <<agents, tasks, task_objs, task_queue, dependencies,
                   running_tasks, cur, now, executed_tasks>>

\* The head of the while loop: break, or go on to wait for the queue.
loop_check ==
    /\ pc = "loop"
    /\ pc' = IF ExitCondition(task_queue, running_tasks, tasks, task_objs)
             THEN "done" ELSE "get"
    /\ UNCHANGED <<agents, tasks, task_objs, task_queue, dependencies,
                   running_tasks, cur, now, executed_tasks>>
    /\ workflow_status' = <<>>
    /\ raised' = None

\* wait_for(self.task_queue.get()) times out on an empty queue: continue.
queue_timeout ==
    /\ pc = "get"
    /\ task_queue = <<>>
    /\ pc' = "loop"
    /\ UNCHANGED <<agents, tasks, task_objs, task_queue, dependencies,
                   running_tasks, cur, now, executed_tasks>>
    /\ workflow_status' = <<>>
    /\ raised' = None

\* process_task on a queue that hands out its newest entry (a LifoQueue).
process_task_Lifo ==
    /\ pc = "get"
    /\ task_queue # <<>>
    /\ LET t == task_queue[Len(task_queue)]
       IN  /\ task_queue' = SubSeq(task_queue, 1, Len(task_queue) - 1)
           /\ IF task_objs[t].id \in running_tasks
              THEN /\ pc' = "loop"
                   /\ UNCHANGED <<task_objs, running_tasks, cur, now>>
              ELSE IF ~DepsCompleted(t, tasks, task_objs)
              THEN /\ task_objs' = [task_objs EXCEPT ![t].status = BLOCKED]
                   /\ pc' = "loop"
                   /\ UNCHANGED <<running_tasks, cur, now>>
              ELSE /\ running_tasks' = running_tasks \cup {task_objs[t].id}
                   /\ task_objs' = StartTask(task_objs, t, now)
                   /\ now' = now + 1
                   /\ cur' = t
                   /\ pc' = "update_state"
    /\ workflow_status' = <<>>
    /\ raised' = None
    /\ UNCHANGED <<agents, tasks, dependencies, executed_tasks>>

\* self.task_queue.get() returns a task and process_task runs up to its
\* first await: the in-flight test, the dependency check, the dispatch and
\* the lookup of the agent.
process_task ==
    /\ pc = "get"
    /\ task_queue # <<>>
    /\ LET t == Head(task_queue)
       IN  /\ task_queue' = Tail(task_queue)
           /\ IF task_objs[t].id \in running_tasks
              THEN /\ pc' = "loop"
                   /\ UNCHANGED <<task_objs, running_tasks, cur, now>>
              ELSE IF ~DepsCompleted(t, tasks, task_objs)
              THEN /\ task_objs' = [task_objs EXCEPT ![t].status = BLOCKED]
                   /\ pc' = "loop"
                   /\ UNCHANGED <<running_tasks, cur, now>>
              ELSE IF task_objs[t].role \notin DOMAIN agents
              THEN \* KeyError(role) in the try block; str(e) is its repr
                   /\ task_objs' = FailTask(StartTask(task_objs, t, now), t,
                                            KeyErrorStr(task_objs[t].role))
                   /\ now' = now + 1
                   /\ pc' = "loop"
                   /\ UNCHANGED <<running_tasks, cur>>
              ELSE /\ running_tasks' = running_tasks \cup {task_objs[t].id}
                   /\ task_objs' = StartTask(task_objs, t, now)
                   /\ now' = now + 1
                   /\ cur' = t
                   /\ pc' = "update_state"
    /\ workflow_status' = <<>>
    /\ raised' = None
    /\ UNCHANGED <<agents, tasks, dependencies, executed_tasks>>

\* await agent.update_state(...) returns; execute_task is called.
update_state_returns ==
    /\ pc = "update_state"
    /\ executed_tasks' = Append(executed_tasks, cur)
    /\ pc' = "execute_task"
    /\ workflow_status' = <<>>
    /\ raised' = None
    /\ UNCHANGED <<agents, tasks, task_objs, task_queue, dependencies,
                   running_tasks, cur, now>>

\* await agent.execute_task(task.description) returns a result: the task is
\* COMPLETED, its dependents are unblocked, it leaves running_tasks.
execute_task_returns ==
    /\ pc = "execute_task"
    /\ LET done == CompleteTask(task_objs, cur, Success, now)
           id == task_objs[cur].id
           ids == Unblocked(id, dependencies, tasks, done)
       IN  /\ task_objs' = FlipUnblocked(ids, tasks, done)
           /\ dependencies' = RemoveCompleted(id, dependencies)
           /\ task_queue' = task_queue \o UnblockedQueue(ids, tasks, done)
           /\ running_tasks' = running_tasks \ {id}
    /\ now' = now + 1
    /\ cur' = 0
    /\ pc' = "loop"
    /\ workflow_status' = <<>>
    /\ raised' = None
    /\ UNCHANGED <<agents, tasks, executed_tasks>>

\* agent_raises that lets the exception end run_workflow.
agent_raises_stops(msg) ==
    /\ pc \in {"update_state", "execute_task"}
    /\ task_objs' = FailTask(task_objs, cur, msg)
    /\ running_tasks' = running_tasks \ {task_objs[cur].id}
    /\ cur' = 0
    /\ pc' = "done"
    /\ workflow_status' = <<>>
    /\ raised' = None
    /\ UNCHANGED <<agents, tasks, task_queue, dependencies, now,
                   executed_tasks>>

\* agent_raises without the finally clause: the id stays in running_tasks.
agent_raises_NoFinally(msg) ==
    /\ pc \in {"update_state", "execute_task"}
    /\ task_objs' = FailTask(task_objs, cur, msg)
    /\ cur' = 0
    /\ pc' = "loop"
    /\ workflow_status' = <<>>
    /\ raised' = None
    /\ UNCHANGED <<agents, tasks, task_queue, dependencies, running_tasks,
                   now, executed_tasks>>

\* agent_raises that releases the dependents of the failed task as a
\* completion would.
agent_raises_Unblocks(msg) ==
    /\ pc \in {"update_state", "execute_task"}
    /\ LET failed == FailTask(task_objs, cur, msg)
           id == task_objs[cur].id
           ids == Unblocked(id, dependencies, tasks, failed)
       IN  /\ task_objs' = FlipUnblocked(ids, tasks, failed)
           /\ dependencies' = RemoveCompleted(id, dependencies)
           /\ task_queue' = task_queue \o UnblockedQueue(ids, tasks, failed)
           /\ running_tasks' = running_tasks \ {id}
    /\ cur' = 0
    /\ pc' = "loop"
    /\ workflow_status' = <<>>
    /\ raised' = None
    /\ UNCHANGED <<agents, tasks, now, executed_tasks>>

\* The awaited agent call (update_state or execute_task) raises an
\* Exception with message msg: the task is FAILED and leaves running_tasks.
agent_raises(msg) ==
    /\ pc \in {"update_state", "execute_task"}
    /\ task_objs' = FailTask(task_objs, cur, msg)
    /\ running_tasks' = running_tasks \ {task_objs[cur].id}
    /\ cur' = 0
    /\ pc' = "loop"
    /\ workflow_status' = <<>>
    /\ raised' = None
    /\ UNCHANGED <<agents, tasks, task_queue, dependencies, now,
                   executed_tasks>>

\* ------------------------------------------------------------ specification
\* The steps of the run_workflow coroutine.
Scheduler ==
    \/ loop_check
    \/ queue_timeout
    \/ process_task
    \/ update_state_returns
    \/ execute_task_returns
    \/ \E msg \in Messages : agent_raises(msg)

\* The callers of a behaviour create at most MaxTasks Task objects.
MayAddTask == Len(task_objs) < MaxTasks

Next ==
    \/ \E memory \in Memories : register_agent(memory)
    \/ /\ MayAddTask
       /\ \E role \in Roles, task_id \in TaskIds :
             \E deps \in DepChoices(task_id) : add_task(role, task_id, deps)
    \/ add_task(Ghost, GhostTaskId, {})
    \/ get_workflow_status
    \/ run_workflow
    \/ Scheduler

Spec == Init /\ [][Next]_vars

\* The event loop resumes a runnable coroutine and an awaited agent call
\* returns or raises: a started run_workflow keeps taking steps.
FairSpec == Spec /\ WF_vars(Scheduler)

\* ------------------------------------------------------- vocabulary of claims
\* The Task objects created so far.
Objs == 1..Len(task_objs)

\* No task id has been submitted twice (the precondition of add_task).
Unique == Len(task_objs) = Cardinality(DOMAIN tasks)

Terminal == {COMPLETED, FAILED}

\* How often execute_task has been invoked for Task object t.
Invocations(t) == Cardinality({k \in 1..Len(executed_tasks) : executed_tasks[k] = t})

\* Task object t sits on the ready queue.
Queued(t) == \E k \in 1..Len(task_queue) : task_queue[k] = t

\* Every dependency of Task object t is submitted and COMPLETED.
AllDepsDone(t) ==
    \A d \in task_objs[t].dependencies :
        d \in DOMAIN tasks /\ task_objs[tasks[d]].status = COMPLETED

\* ------------------------------------------------------------------ claims
\* C1: with unique task ids, a task that is IN_PROGRESS or COMPLETED has
\* every dependency submitted and COMPLETED, and each dependency's execution
\* ended (completed_at) before the task's execution started (started_at).
C1_DependencyOrdering ==
    Unique =>
        \A t \in Objs :
            task_objs[t].status \in {IN_PROGRESS, COMPLETED} =>
                \A d \in task_objs[t].dependencies :
                    /\ d \in DOMAIN tasks
                    /\ task_objs[tasks[d]].status = COMPLETED
                    /\ task_objs[tasks[d]].completed_at # <<>>
                    /\ task_objs[t].started_at # <<>>
                    /\ task_objs[tasks[d]].completed_at[1] <= task_objs[t].started_at[1]

\* C1 witness: a task with a dependency has been executed to completion.
C1_Witness ==
    /\ Unique
    /\ \E t \in Objs :
          /\ task_objs[t].dependencies # {}
          /\ task_objs[t].status = COMPLETED

C2_AtMostOnceState ==
    Unique =>
        \A t \in Objs :
            /\ Invocations(t) <= 1
            /\ task_objs[t].status = COMPLETED => Invocations(t) = 1
            /\ Invocations(t) = 1 =>
                  task_objs[t].status \in {IN_PROGRESS, COMPLETED, FAILED}

\* C2 amended, step part: a COMPLETED or FAILED task keeps that status, so it
\* never re-enters IN_PROGRESS.
C2_TerminalStays ==
    \A t \in Objs :
        (Unique' /\ task_objs[t].status \in Terminal) =>
            task_objs'[t].status = task_objs[t].status

C3_NotLeftBlocked ==
    Unique =>
        \A t \in Objs :
            (task_objs[t].dependencies # {} /\ AllDepsDone(t)) =>
                task_objs[t].status # BLOCKED

\* The ids reachable from the ids S along at most n dependency edges of the
\* submitted tasks.
RECURSIVE DepClosure(_, _)
DepClosure(S, n) ==
    IF n = 0 THEN S
    ELSE DepClosure(S \cup UNION {task_objs[tasks[d]].dependencies :
                                     d \in S \cap DOMAIN tasks}, n - 1)

\* No submitted task depends on itself, directly or through other tasks.
Acyclic ==
    \A id \in DOMAIN tasks :
        id \notin DepClosure(task_objs[tasks[id]].dependencies, Cardinality(TaskIds))

\* Every dependency of every task has been submitted.
AllDepsSubmitted ==
    \A t \in Objs : task_objs[t].dependencies \subseteq DOMAIN tasks

NoFailure == \A t \in Objs : task_objs[t].status # FAILED

AllCompleted == \A t \in Objs : task_objs[t].status = COMPLETED

\* A call of run_workflow is in progress.
Running == pc \notin {"idle", "done"}

\* The precondition of C4: unique ids, an acyclic dependency graph with
\* every dependency submitted, and no agent call has failed.
Runnable == Unique /\ AllDepsSubmitted /\ Acyclic /\ NoFailure

\* C4: a call of run_workflow in progress over tasks with unique ids, an
\* acyclic dependency graph, every dependency submitted and no failing agent
\* call eventually returns with every task COMPLETED (the obligation lapses
\* only if the precondition stops holding).
C4_RunToCompletion ==
    Running ~> ((pc = "done" /\ AllCompleted) \/ ~Runnable)

\* A submitted task is BLOCKED on a dependency that was never submitted.
Starved ==
    \E id \in DOMAIN tasks :
        /\ task_objs[tasks[id]].status = BLOCKED
        /\ \E d \in task_objs[tasks[id]].dependencies : d \notin DOMAIN tasks

\* C5: with unique ids, a call of run_workflow in progress while a task is
\* BLOCKED on a dependency that is never submitted still returns, with that
\* task BLOCKED (the obligation lapses only if the missing dependency is
\* submitted).
C5_StarvationTerminates ==
    (Running /\ Unique /\ Starved)
        ~> ((pc = "done" /\ Starved) \/ ~Starved \/ ~Unique)

SomeFailed == \E t \in Objs : task_objs[t].status = FAILED

\* Some task of self.tasks is still PENDING or BLOCKED.
Outstanding ==
    \E id \in DOMAIN tasks : task_objs[tasks[id]].status \in {PENDING, BLOCKED}

\* C6, the step: when the awaited agent call of the dispatched task raises
\* msg, the task is FAILED, its error is the message, its id has left
\* running_tasks and run_workflow goes on with its loop.
C6_RaiseStep ==
    \A msg \in Messages :
        agent_raises(msg) =>
            /\ task_objs'[cur].status = FAILED
            /\ task_objs'[cur].error = msg
            /\ task_objs[cur].id \notin running_tasks'
            /\ pc' = "loop"

\* C6: an agent failure is captured on the task (FAILED, error = the raised
\* message, no longer in running_tasks), is not raised out of run_workflow,
\* and a run with a failed task still returns once no task of self.tasks is
\* PENDING or BLOCKED.
C6_FailureCaptured ==
    /\ [][C6_RaiseStep]_vars
    /\ (Running /\ SomeFailed) ~> (pc = "done" \/ Outstanding)

\* C6 witness: run_workflow has returned after the agent raised on a task
\* without dependencies, the only task submitted.
C6_Witness ==
    /\ pc = "done"
    /\ Len(task_objs) = 1
    /\ task_objs[1].dependencies = {}
    /\ task_objs[1].status = FAILED
    /\ task_objs[1].error \in Messages
    /\ running_tasks = {}

\* Task object t has a dependency whose task is FAILED.
HasFailedDep(t) ==
    \E d \in task_objs[t].dependencies :
        d \in DOMAIN tasks /\ task_objs[tasks[d]].status = FAILED

\* C7, state part: with unique ids a task with a FAILED dependency is
\* PENDING or BLOCKED, never IN_PROGRESS, COMPLETED or FAILED.
C7_NotDispatched ==
    Unique =>
        \A t \in Objs :
            HasFailedDep(t) => task_objs[t].status \in {PENDING, BLOCKED}

\* C7, step part: a BLOCKED task with a FAILED dependency stays BLOCKED, and
\* the step in which a task fails moves no task out of BLOCKED.
C7_StaysBlocked ==
    \A t \in Objs :
        (Unique' /\ task_objs[t].status = BLOCKED
           /\ (HasFailedDep(t) \/ \E msg \in Messages : agent_raises(msg)))
        => task_objs'[t].status = BLOCKED

\* C7: failure isolation: with unique ids, once a dependency of a task has
\* ended FAILED the task is never dispatched and never failed, and no
\* failing task moves a BLOCKED task out of BLOCKED.
C7_FailureIsolation == []C7_NotDispatched /\ [][C7_StaysBlocked]_vars

\* C7 witness: a task is BLOCKED behind a FAILED dependency after the run
\* has gone on.
C7_Witness ==
    /\ Unique
    /\ pc = "get"
    /\ \E t \in Objs : task_objs[t].status = BLOCKED /\ HasFailedDep(t)

\* Task object t is on the ready queue with every dependency COMPLETED (or
\* with none) while another task's agent call is pending, or while the run
\* goes on after a failure.
ReadyBesideFailure(t) ==
    /\ t \in Objs
    /\ Unique
    /\ Queued(t)
    /\ AllDepsDone(t)
    /\ \/ pc \in {"update_state", "execute_task"}
       \/ Running /\ SomeFailed

\* C8: with unique ids, whether or not the agent call in flight raises, and
\* at any later point of a run in which a task has failed, every task that
\* is on the ready queue with all its dependencies COMPLETED is eventually
\* dispatched and reaches COMPLETED or FAILED.
C8_LoopSurvivesFailure ==
    \A t \in 1..MaxTasks :
        ReadyBesideFailure(t)
            ~> (~Unique \/ (t \in Objs /\ task_objs[t].status \in Terminal))

\* C8 witness: the task dispatched last has just failed, the loop goes on
\* and another task waits on the ready queue with nothing to wait for.
C8_Witness ==
    /\ Unique
    /\ pc = "loop"
    /\ \E f, t \in Objs :
          /\ task_objs[f].status = FAILED
          /\ task_objs[f].started_at = <<now - 1>>
          /\ Queued(t)
          /\ AllDepsDone(t)

\* C9: two tasks without dependencies that are ready together run with
\* overlapping windows: while the execute_task call of one is suspended and
\* the other waits on the ready queue, the call does not return (ending the
\* first task's window) before the other has been dispatched.
C9_IndependentOverlap ==
    [][\A t \in Objs :
          (/\ Unique
           /\ pc = "execute_task"
           /\ task_objs[cur].dependencies = {}
           /\ task_objs[t].dependencies = {}
           /\ Queued(t))
          => ~execute_task_returns]_vars

\* C10: add_task with a registered role (and a dependency list that does
\* not name the new task itself) leaves the new task BLOCKED and off the
\* queue exactly when the list is non-empty and some dependency is not
\* COMPLETED (not submitted, or submitted in any other status); otherwise
\* the task is PENDING and appended to the ready queue.
C10_InitialStatus ==
    [][\A role \in Roles, task_id \in TaskIds :
         \A deps \in DepChoices(task_id) :
            (/\ add_task(role, task_id, deps)
             /\ role \in DOMAIN agents
             /\ task_id \notin deps) =>
                LET n == Len(task_objs')
                    unresolved ==
                        \E d \in deps :
                            ~(d \in DOMAIN tasks
                              /\ task_objs[tasks[d]].status = COMPLETED)
                IN  IF deps # {} /\ unresolved
                    THEN /\ task_objs'[n].status = BLOCKED
                         /\ task_queue' = task_queue
                    ELSE /\ task_objs'[n].status = PENDING
                         /\ task_queue' = Append(task_queue, n)]_vars

\* C11: add_task with a registered role and no dependencies creates one
\* Task with the given id and role, binds the id to it, leaves it PENDING
\* and puts it on the ready queue before returning it.
C11_NoDependenciesPending ==
    [][\A role \in Roles, task_id \in TaskIds :
          (add_task(role, task_id, {}) /\ role \in DOMAIN agents) =>
              LET n == Len(task_objs')
              IN  /\ n = Len(task_objs) + 1
                  /\ tasks'[task_id] = n
                  /\ task_objs'[n].id = task_id
                  /\ task_objs'[n].role = role
                  /\ task_objs'[n].status = PENDING
                  /\ task_queue' = Append(task_queue, n)
                  /\ raised' = None]_vars

\* C11 witness: tasks without dependencies have just been submitted, before
\* and during a run, and sit PENDING on the ready queue.
C11_Witness ==
    /\ pc = "execute_task"
    /\ raised = None
    /\ Len(task_queue) >= 2
    /\ \A k \in 1..Len(task_queue) :
          /\ task_objs[task_queue[k]].dependencies = {}
          /\ task_objs[task_queue[k]].status = PENDING

\* C12: add_task with an id that is already in self.tasks raises a
\* duplicate-id error and leaves the task map, the Task objects, the
\* dependency index and the ready queue as they were.
C12_DuplicateRejected ==
    [][\A role \in Roles, task_id \in TaskIds :
          \A deps \in DepChoices(task_id) :
              (/\ add_task(role, task_id, deps)
               /\ role \in DOMAIN agents
               /\ task_id \in DOMAIN tasks)
              => /\ raised' # None
                 /\ UNCHANGED <<tasks, task_objs, dependencies, task_queue>>]_vars

\* C13, the effect of a rejected call: ValueError is raised and the task
\* map, the Task objects, the dependency index, the ready queue and
\* running_tasks are unchanged.
C13_Rejected ==
    /\ raised' = "ValueError"
    /\ UNCHANGED <<tasks, task_objs, dependencies, task_queue, running_tasks>>

\* C13: add_task with a role that is not registered (a role no agent is
\* ever registered for, or one that is not registered yet) raises and
\* creates no task.
C13_UnknownRoleRejected ==
    [][/\ add_task(Ghost, GhostTaskId, {}) => C13_Rejected
       /\ \A role \in Roles, task_id \in TaskIds :
             \A deps \in DepChoices(task_id) :
                 (role \notin DOMAIN agents /\ add_task(role, task_id, deps))
                 => C13_Rejected]_vars

\* C13 witness: a call naming an unregistered role has just been rejected
\* while a run is in progress with a task in flight and another one queued.
C13_Witness ==
    /\ raised = "ValueError"
    /\ pc = "execute_task"
    /\ running_tasks # {}
    /\ task_queue # <<>>

\* C14: register_agent for a role that already has a binding raises a
\* duplicate-role error and keeps the binding that is there.
C14_DuplicateRoleRejected ==
    [][\A memory \in Memories :
          (register_agent(memory) /\ memory.role \in DOMAIN agents)
          => /\ raised' # None
             /\ agents' = agents]_vars

\* C15: with unique ids, the report handed out by get_workflow_status at any
\* point a caller can run (before, between and after runs, while the loop
\* waits for the queue and while an agent call of process_task is pending)
\* lists as running_tasks exactly the ids it reports as IN_PROGRESS.
C15_NoTornSnapshot ==
    (workflow_status # <<>> /\ Unique) =>
        LET report == workflow_status[1]
        IN  report.running_tasks =
                {id \in DOMAIN report.tasks :
                    report.tasks[id].status = IN_PROGRESS}

\* C15 witness: a report taken while execute_task is pending, after other
\* tasks have ended COMPLETED and FAILED.
C15_Witness ==
    /\ workflow_status # <<>>
    /\ Unique
    /\ pc = "execute_task"
    /\ workflow_status[1].running_tasks # {}
    /\ \E c, f \in DOMAIN tasks :
          /\ workflow_status[1].tasks[c].status = COMPLETED
          /\ workflow_status[1].tasks[f].status = FAILED

\* C16: get_workflow_status changes neither agents, tasks, the Task objects,
\* the ready queue, the dependency index nor running_tasks, and the dict it
\* returns has one entry per id of self.tasks with the status and role of
\* that id's task, the registered roles and the ids in running_tasks.
C16_StatusReadOnlyComplete ==
    [][get_workflow_status =>
          /\ UNCHANGED <<agents, tasks, task_objs, task_queue, dependencies,
                         running_tasks>>
          /\ workflow_status' # <<>>
          /\ LET report == workflow_status'[1]
             IN  /\ DOMAIN report.tasks = DOMAIN tasks
                 /\ \A id \in DOMAIN tasks :
                       /\ report.tasks[id].status = task_objs[tasks[id]].status
                       /\ report.tasks[id].role = task_objs[tasks[id]].role
                 /\ report.agents = DOMAIN agents
                 /\ report.running_tasks = running_tasks]_vars

\* C16 witness: a report of three tasks in three different statuses, one of
\* them in flight and one on the ready queue.
C16_Witness ==
    /\ workflow_status # <<>>
    /\ Cardinality(DOMAIN workflow_status[1].tasks) = 3
    /\ Cardinality({workflow_status[1].tasks[id].status :
                       id \in DOMAIN workflow_status[1].tasks}) = 3
    /\ workflow_status[1].running_tasks # {}
    /\ workflow_status[1].agents = Roles
    /\ task_queue # <<>>

\* C17: in the step in which run_workflow returns, the ready queue is empty,
\* running_tasks is empty and every task of self.tasks is COMPLETED or
\* FAILED (none is PENDING, BLOCKED or IN_PROGRESS); so it does not return
\* while a task is queued, in flight, PENDING or BLOCKED.
C17_ReturnsOnlyWhenDrained ==
    [][(pc # "done" /\ pc' = "done") =>
          /\ task_queue = <<>>
          /\ running_tasks = {}
          /\ \A id \in DOMAIN tasks :
                task_objs[tasks[id]].status \in Terminal
          /\ UNCHANGED <<tasks, task_objs, task_queue, running_tasks>>]_vars

\* C17 witness: run_workflow has just returned from a run in which one task
\* was COMPLETED and another FAILED.
C17_Witness ==
    /\ pc = "done"
    /\ task_queue = <<>>
    /\ running_tasks = {}
    /\ \E c, f \in DOMAIN tasks :
          /\ task_objs[tasks[c]].status = COMPLETED
          /\ task_objs[tasks[f]].status = FAILED
    /\ \A id \in DOMAIN tasks : task_objs[tasks[id]].status \in Terminal

\* C18, the step: with unique ids, a task that becomes COMPLETED or FAILED
\* was IN_PROGRESS, and a COMPLETED or FAILED task keeps its status.
C18_TerminalStep ==
    \A t \in Objs :
        Unique' =>
            /\ (task_objs'[t].status \in Terminal
                  /\ task_objs[t].status \notin Terminal)
               => task_objs[t].status = IN_PROGRESS
            /\ task_objs[t].status \in Terminal
               => task_objs'[t].status = task_objs[t].status

\* C18: with unique ids, COMPLETED and FAILED are entered only from
\* IN_PROGRESS and are never left, whatever add_task calls and run_workflow
\* steps follow.
C18_TerminalStates == [][C18_TerminalStep]_vars

\* C18 witness: a task submitted after one of its dependencies COMPLETED and
\* another FAILED has been dequeued and demoted, and both keep their status.
C18_Witness ==
    /\ Unique
    /\ \E t \in Objs :
          /\ task_objs[t].status = BLOCKED
          /\ \E c, f \in task_objs[t].dependencies \cap DOMAIN tasks :
                /\ tasks[c] < t
                /\ tasks[f] < t
                /\ task_objs[tasks[c]].status = COMPLETED
                /\ task_objs[tasks[f]].status = FAILED

\* C19: with unique ids, started_at is None exactly while the task is
\* PENDING or BLOCKED, and completed_at is None while it is PENDING, BLOCKED
\* or IN_PROGRESS and set once it is COMPLETED or FAILED.
C19_Timestamps ==
    Unique =>
        \A t \in Objs :
            /\ task_objs[t].status \in {PENDING, BLOCKED}
               <=> task_objs[t].started_at = <<>>
            /\ task_objs[t].status \in {PENDING, BLOCKED, IN_PROGRESS}
               <=> task_objs[t].completed_at = <<>>

\* C20: a task's error is set only if the task is FAILED and its result is
\* set only if the task is COMPLETED.
C20_ResultErrorConsistent ==
    \A t \in Objs :
        /\ task_objs[t].error # None => task_objs[t].status = FAILED
        /\ task_objs[t].result # None => task_objs[t].status = COMPLETED

\* C20 witness: one task has ended COMPLETED with a result and no error,
\* another FAILED with an error and no result.
C20_Witness ==
    \E c, f \in Objs :
        /\ task_objs[c].status = COMPLETED
        /\ task_objs[c].result = Success
        /\ task_objs[c].error = None
        /\ task_objs[f].status = FAILED
        /\ task_objs[f].error \in Messages
        /\ task_objs[f].result = None

\* How often Task object t occurs on the queue q.
QCount(q, t) == Cardinality({k \in 1..Len(q) : q[k] = t})

\* C21: when the execute_task call of task T returns, T is removed from every
\* entry of the dependency index; a task whose entry listed T, is emptied
\* by the removal and which is BLOCKED becomes PENDING and is put on the
\* ready queue; every other task keeps its status and is not enqueued.
C21_UnblockingStep ==
    [][execute_task_returns =>
          LET T == task_objs[cur].id
          IN  /\ DOMAIN dependencies' = DOMAIN dependencies
              /\ \A id \in DOMAIN dependencies :
                    dependencies'[id] = dependencies[id] \ {T}
              /\ \A id \in DOMAIN tasks :
                    LET t == tasks[id]
                    IN  IF /\ id \in DOMAIN dependencies
                           /\ T \in dependencies[id]
                           /\ dependencies'[id] = {}
                           /\ task_objs[t].status = BLOCKED
                        THEN /\ task_objs'[t].status = PENDING
                             /\ QCount(task_queue', t) = QCount(task_queue, t) + 1
                        ELSE /\ t # cur =>
                                  task_objs'[t].status = task_objs[t].status
                             /\ QCount(task_queue', t) = QCount(task_queue, t)]_vars

\* C21 witness: a task has just completed; one dependent of it was unblocked
\* and queued, another one still waits for a second dependency.
C21_Witness ==
    /\ Unique
    /\ pc = "loop"
    /\ \E c, t, u \in Objs :
          /\ task_objs[c].status = COMPLETED
          /\ task_objs[c].completed_at = <<now - 1>>
          /\ task_objs[c].id \in task_objs[t].dependencies
          /\ task_objs[c].id \in task_objs[u].dependencies
          /\ task_objs[t].status = PENDING
          /\ Queued(t)
          /\ dependencies[task_objs[t].id] = {}
          /\ task_objs[u].status = BLOCKED
          /\ dependencies[task_objs[u].id] # {}

\* C22: with unique ids, the index entry of every submitted task with
\* dependencies is the set of its dependency ids that are not (yet)
\* COMPLETED, never submitted ids included.
C22_IndexIsRemaining ==
    Unique =>
        \A id \in DOMAIN tasks :
            task_objs[tasks[id]].dependencies # {} =>
                /\ id \in DOMAIN dependencies
                /\ dependencies[id] =
                      {d \in task_objs[tasks[id]].dependencies :
                          ~(d \in DOMAIN tasks
                            /\ task_objs[tasks[d]].status = COMPLETED)}

\* C23: with unique ids, every task on the ready queue (that does not name
\* itself as a dependency) has no dependencies or has all of them COMPLETED.
C23_QueuedAreReady ==
    Unique =>
        \A k \in 1..Len(task_queue) :
            LET t == task_queue[k]
            IN  task_objs[t].id \notin task_objs[t].dependencies
                    => AllDepsDone(t)

\* With unique ids: Task object t was put on the ready queue by add_task,
\* which is the case exactly if every dependency it names was submitted no
\* later than t itself.
EnqueuedAtSubmission(t) ==
    \A d \in task_objs[t].dependencies : d \in DOMAIN tasks /\ tasks[d] <= t

\* C24: with unique ids a task is put on the ready queue at most once: a
\* task that add_task has put on the queue is not put on it again by any
\* later step (so not by the completion of its dependencies).
C24_NoSecondEnqueue ==
    [][\A t \in Objs :
          (Unique' /\ EnqueuedAtSubmission(t))
              => QCount(task_queue', t) <= QCount(task_queue, t)]_vars

\* Task object t names one dependency, and that one was submitted after t
\* and is COMPLETED.
LateDepCompleted(t) ==
    /\ t \in Objs
    /\ Unique
    /\ Cardinality(task_objs[t].dependencies) = 1
    /\ \A g \in task_objs[t].dependencies :
          /\ g \in DOMAIN tasks
          /\ tasks[g] > t
          /\ task_objs[tasks[g]].status = COMPLETED

\* C25, submission: add_task with a single dependency that is not submitted
\* leaves the new task BLOCKED and off the queue.
C25_SubmittedBlocked ==
    \A role \in Roles, task_id \in TaskIds :
        \A g \in DepUniverse[task_id] \ {task_id} :
            (/\ role \in DOMAIN agents
             /\ g \notin DOMAIN tasks
             /\ add_task(role, task_id, {g}))
            => /\ task_objs'[Len(task_objs')].status = BLOCKED
               /\ task_queue' = task_queue

\* C25, wake-up: once the late dependency is COMPLETED the task is no longer
\* BLOCKED: it is PENDING on the queue, or dispatched after the dependency
\* completed.
C25_Released ==
    \A t \in Objs :
        LateDepCompleted(t) =>
            \/ task_objs[t].status = PENDING /\ Queued(t)
            \/ /\ task_objs[t].status \in {IN_PROGRESS, COMPLETED, FAILED}
               /\ \A g \in task_objs[t].dependencies :
                     task_objs[tasks[g]].completed_at[1]
                         <= task_objs[t].started_at[1]

\* C25: with unique ids, a task submitted with a single dependency that is
\* not submitted yet is BLOCKED and not enqueued; when the dependency is
\* submitted later and completes, the task is PENDING and enqueued, and the
\* run dispatches it, after the dependency, and brings it to an end.
C25_LateDependency ==
    /\ [][C25_SubmittedBlocked]_vars
    /\ []C25_Released
    /\ \A t \in 1..MaxTasks :
          LateDepCompleted(t)
              ~> (~Unique \/ (t \in Objs /\ task_objs[t].status \in Terminal))

\* C25 witness: a task has been executed to completion whose only
\* dependency was submitted after it.
C25_Witness ==
    \E t \in Objs :
        /\ LateDepCompleted(t)
        /\ task_objs[t].status = COMPLETED
        /\ Invocations(t) = 1

\* C26, the step: the ready queue grows at its tail only and shrinks at its
\* head only, and a task that is dispatched is the one that stood at the
\* head of the queue.
C26_FifoStep ==
    /\ \/ /\ Len(task_queue') >= Len(task_queue)
          /\ SubSeq(task_queue', 1, Len(task_queue)) = task_queue
       \/ /\ task_queue # <<>>
          /\ task_queue' = Tail(task_queue)
    /\ \A t \in Objs :
          (task_objs[t].status # IN_PROGRESS
             /\ task_objs'[t].status = IN_PROGRESS)
          => /\ task_queue # <<>>
             /\ t = Head(task_queue)
             /\ cur' = t

\* C26: tasks leave the ready queue in the order they were put on it, and
\* the agent is invoked for them in that order.
C26_FifoDispatch == [][C26_FifoStep]_vars

\* C26 witness: of three tasks without dependencies queued together, the
\* first two have been executed in the order of the queue and the third is
\* still waiting.
C26_Witness ==
    /\ Unique
    /\ Len(task_objs) = 3
    /\ \A t \in Objs : task_objs[t].dependencies = {}
    /\ executed_tasks = <<1, 2>>
    /\ task_queue = <<3>>
    /\ task_objs[3].started_at = <<>>

\* C27: in the step in which a task becomes FAILED no other task changes,
\* and the dependency index and the ready queue stay as they are.
C27_FailureTouchesNothingElse ==
    [][\A f \in Objs :
          (task_objs[f].status # FAILED /\ task_objs'[f].status = FAILED)
          => /\ \A t \in Objs \ {f} : task_objs'[t] = task_objs[t]
             /\ Len(task_objs') = Len(task_objs)
             /\ dependencies' = dependencies
             /\ task_queue' = task_queue]_vars

\* C27 witness: a task has just failed while one task waits BLOCKED for it
\* alone and another task stands on the ready queue.
C27_Witness ==
    /\ Unique
    /\ pc = "loop"
    /\ task_queue # <<>>
    /\ \E f, t \in Objs :
          /\ task_objs[f].status = FAILED
          /\ task_objs[f].started_at = <<now - 1>>
          /\ task_objs[t].status = BLOCKED
          /\ dependencies[task_objs[t].id] = {task_objs[f].id}

\* C28: with unique ids the PENDING tasks are exactly the tasks on the ready
\* queue, and each of them is on it once.
C28_PendingIffQueued ==
    Unique =>
        \A t \in Objs :
            /\ task_objs[t].status = PENDING <=> Queued(t)
            /\ QCount(task_queue, t) <= 1

\* C28 witness: while one task is in flight, the queue holds one PENDING
\* task, released from BLOCKED by a completion.
C28_Witness ==
    /\ Unique
    /\ pc = "execute_task"
    /\ Len(task_queue) = 1
    /\ \E t \in Objs :
          /\ Queued(t)
          /\ task_objs[t].status = PENDING
          /\ ~EnqueuedAtSubmission(t)
          /\ dependencies[task_objs[t].id] = {}

\* C29: when run_workflow takes from the queue a task one of whose
\* dependencies is not COMPLETED, the task becomes BLOCKED and nothing else
\* happens: no agent call, no entry in running_tasks, no started_at, and the
\* task is not put back on the queue.
C29_DemotionOnDequeue ==
    [][(/\ pc = "get"
        /\ pc' # "get"
        /\ task_queue # <<>>
        /\ ~AllDepsDone(Head(task_queue)))
       => LET t == Head(task_queue)
          IN  /\ task_objs' = [task_objs EXCEPT ![t].status = BLOCKED]
              /\ task_queue' = Tail(task_queue)
              /\ QCount(task_queue', t) = 0
              /\ running_tasks' = running_tasks
              /\ running_tasks = {}
              /\ executed_tasks' = executed_tasks
              /\ cur' = cur
              /\ pc' = "loop"]_vars

\* C29 witness: a task that add_task had put on the queue has been taken
\* from it and demoted: it is BLOCKED, never started, and off the queue.
C29_Witness ==
    /\ Unique
    /\ pc = "loop"
    /\ running_tasks = {}
    /\ \E t \in Objs :
          /\ EnqueuedAtSubmission(t)
          /\ task_objs[t].id \notin task_objs[t].dependencies
          /\ task_objs[t].status = BLOCKED
          /\ task_objs[t].started_at = <<>>
          /\ ~Queued(t)
          /\ Invocations(t) = 0

\* ------------------------------------------------- a chain of four tasks
\* Callers that keep to the precondition of add_task (no id is submitted
\* twice) and submit, in any order and at any time, up to four tasks: G and
\* H without dependencies, A with or without H, B with any of A and G.
ChainIds == {"A", "B", "G", "H"}

ChainDepUniverse ==
    [id \in ChainIds |->
        CASE id = "A" -> {"H"} [] id = "B" -> {"A", "G"} [] OTHER -> {}]

ChainNext ==
    \/ \E memory \in Memories : register_agent(memory)
    \/ \E role \in Roles, task_id \in ChainIds \ DOMAIN tasks :
          \E deps \in SUBSET ChainDepUniverse[task_id] :
              add_task(role, task_id, deps)
    \/ run_workflow
    \/ Scheduler

ChainSpec == Init /\ [][ChainNext]_vars

\* C30: with unique ids, a task that add_task had put on the queue (all of
\* its dependencies submitted) and that was demoted to BLOCKED when dequeued
\* does not stay BLOCKED once all of its dependencies are COMPLETED: the
\* completion of the last one puts it back on the ready queue.
C30_NoLostWakeup ==
    Unique =>
        \A t \in Objs :
            (/\ task_objs[t].dependencies # {}
             /\ task_objs[t].id \notin task_objs[t].dependencies
             /\ EnqueuedAtSubmission(t)
             /\ AllDepsDone(t))
            => task_objs[t].status # BLOCKED

\* ------------------------------------------------ roles and the index
\* C31, the state part: every Task object names a role that is a key of
\* agents, and no task has failed on the lookup self.agents[task.role]
\* (the KeyError of the lookup would be its error).
C31_RolesRegistered ==
    \A t \in Objs :
        /\ task_objs[t].role \in DOMAIN agents
        /\ task_objs[t].error # KeyErrorStr(task_objs[t].role)

\* C31, the step part: no step takes a role out of agents.
C31_RolesStay == DOMAIN agents \subseteq DOMAIN agents'

\* C31: in every reachable state every task in tasks names a role present
\* in agents, roles are only added to agents and never removed, and so the
\* lookup agents[task.role] at dispatch never fails for a submitted task.
C31_RegisteredRole == []C31_RolesRegistered /\ [][C31_RolesStay]_vars

\* C31 witness: the agent of the role has been registered again (the second
\* memory is bound) after two tasks were submitted, a call naming an
\* unregistered role has just been rejected, and one task has been looked up
\* and is in flight.
C31_Witness ==
    /\ Len(task_objs) >= 2
    /\ pc = "execute_task"
    /\ task_objs[cur].role \in DOMAIN agents
    /\ agents[task_objs[cur].role].name = "m2"
    /\ raised = "ValueError"

\* C32, the step of an accepted add_task: it is the only step that creates
\* a Task object, and the new object, the last one of task_objs', carries
\* the id and the dependency list of the call.  With a non-empty list the
\* index gets the entry of that id, holding every listed id; without one
\* the index is left as it is, so that a new id has no entry; the entries
\* of all other ids are neither created, removed nor changed.
C32_SubmissionStep ==
    Len(task_objs') > Len(task_objs) =>
        LET task == task_objs'[Len(task_objs')]
        IN  /\ task.dependencies # {} =>
                  /\ task.id \in DOMAIN dependencies'
                  /\ task.dependencies \subseteq dependencies'[task.id]
            /\ task.dependencies = {} =>
                  /\ dependencies' = dependencies
                  /\ task.id \notin DOMAIN tasks =>
                         task.id \notin DOMAIN dependencies'
            /\ \A id \in (DOMAIN dependencies \cup DOMAIN dependencies')
                             \ {task.id} :
                  /\ id \in DOMAIN dependencies
                  /\ id \in DOMAIN dependencies'
                  /\ dependencies'[id] = dependencies[id]

\* C32: add_task with a non-empty dependency list leaves an index entry for
\* the id that contains every listed dependency; a task submitted without
\* dependencies gets no index entry; add_task changes no other task's entry.
C32_IndexRegistration == [][C32_SubmissionStep]_vars

\* C32 witness: the newest task was submitted with two dependencies and has
\* its entry with both of them, beside the entry of another task that a
\* completion has already emptied, and a task without dependencies has none.
C32_Witness ==
    /\ Unique
    /\ Len(task_objs) = MaxTasks
    /\ LET task == task_objs[Len(task_objs)]
       IN  /\ Cardinality(task.dependencies) = 2
           /\ task.status \in {PENDING, BLOCKED}
           /\ task.id \in DOMAIN dependencies
           /\ dependencies[task.id] = task.dependencies
           /\ \E id \in DOMAIN dependencies \ {task.id} : dependencies[id] = {}
    /\ \E t \in Objs : /\ task_objs[t].dependencies = {}
                       /\ task_objs[t].id \notin DOMAIN dependencies

====
